---- MODULE Spec2Model ----
(***************************************************************************)
(* Meal Tracking MCP server (src/server.py): the "meals" table and the     *)
(* four tools start_meal, end_meal, get_meals_today, get_meals_history.    *)
(*                                                                         *)
(* Three specifications share the state:                                   *)
(*   SpecAtomic   the four tools, every call one step (sequential calls);  *)
(*   SpecHistory  start_meal, end_meal and get_meals_history with every    *)
(*                `days` tried, every call one step;                       *)
(*   Spec         start_meal and end_meal run as the separate steps of the *)
(*                code: read the clock, select, update / insert, so the    *)
(*                calls of the requests in flight interleave.              *)
(* Timestamps are seconds since the epoch (UTC).                           *)
(*                                                                         *)
(* State:                                                                  *)
(*   clock   the UTC wall clock, datetime.now(timezone.utc)                *)
(*   meals   the rows of the "meals" table, in insertion order             *)
(*   last    atomic calls: the tool call made at the current clock instant *)
(*           (arguments, returned text, result.data, the table before it); *)
(*           NoCall when the clock has advanced since the last call        *)
(*   calls   Spec: the position and the locals of each request in flight   *)
(*   closes  per row, the `now` of every end_meal call that updated it and *)
(*           returned "Finished ...", in the order of the updates          *)
(***************************************************************************)
EXTENDS Integers, Sequences, FiniteSets, TLC

VARIABLES clock, meals, last, calls, closes

vars == <<clock, meals, last, calls, closes>>

(* ------------------------------ bounds --------------------------------- *)
\* rows the table may hold in SpecAtomic and SpecHistory
MaxMeals == 2
\* rows the table may hold in Spec
MaxConcMeals == 2
\* largest `days` argument tried
MaxDays == 2

(* ------------------------- program constants --------------------------- *)
SecondsPerDay == 86400
SecondsPerHour == 3600
SecondsPerMinute == 60

\* get_meals_history(ctx, days: int = 7)
DefaultDays == 7

\* ended_at of a row that was inserted without it (SQL null)
NULL == -1

MealType == {"breakfast", "lunch", "dinner"}

\* the meal types the calls are made with, in SpecAtomic, SpecHistory and Spec
TypesTried == {"breakfast", "lunch"}
HistoryTypes == {"dinner"}
ConcTypes == {"breakfast"}

\* ctx.client_id of the callers; NoClient is an absent (None / empty) id
NoClient == ""
ClientIds == {"alice", NoClient}

get_user_id(client_id) == IF client_id = NoClient THEN "anonymous" ELSE client_id

UserIds == {get_user_id(c) : c \in ClientIds}

(* ------------------------------- time ---------------------------------- *)
\* seconds since the epoch of day d, h:m:s UTC
At(d, h, m, sec) ==
    d * SecondsPerDay + h * SecondsPerHour + m * SecondsPerMinute + sec

\* the instants the clock is read at: two in the same minute of day 0, the
\* first second of day 1 and the last second of day 2
Instants == {At(0, 8, 15, 10), At(0, 8, 15, 50), At(1, 0, 0, 0), At(2, 23, 59, 59)}

FirstInstant == CHOOSE t \in Instants : \A x \in Instants : t <= x

\* the instant that follows t
NextInstant(t) ==
    CHOOSE x \in Instants : x > t /\ \A y \in Instants : y > t => x <= y

\* now.replace(hour=0, minute=0, second=0, microsecond=0)
TodayStart(now) == now - (now % SecondsPerDay)

\* strftime("%Y-%m-%d"), as the number of the UTC day
DateOf(t) == t \div SecondsPerDay

Pad2(n) == IF n < 10 THEN "0" \o ToString(n) ELSE ToString(n)

\* HHMM with the seconds in the place of the minutes
HHMMSeconds(t) ==
    Pad2((t % SecondsPerDay) \div SecondsPerHour) \o ":" \o
    Pad2(t % SecondsPerMinute)

\* strftime("%H:%M")
HHMM(t) ==
    Pad2((t % SecondsPerDay) \div SecondsPerHour) \o ":" \o
    Pad2((t % SecondsPerHour) \div SecondsPerMinute)

\* strftime("%Y-%m-%d") as text
DateStr(t) == "day" \o ToString(DateOf(t))

Capitalize(s) ==
    CASE s = "breakfast" -> "Breakfast"
      [] s = "lunch" -> "Lunch"
      [] s = "dinner" -> "Dinner"

(* ------------------------------ the table ------------------------------ *)
\* the rows of the table, as a set
Rows(tbl) == {tbl[i] : i \in 1..Len(tbl)}

\* Insert that refuses a second open row of the user and type
InsertUnlessOpen(tbl, u, t, now) ==
    IF \E i \in 1..Len(tbl) :
          tbl[i].user_id = u /\ tbl[i].type = t /\ tbl[i].ended_at = NULL
    THEN tbl
    ELSE Append(tbl, [id |-> Len(tbl) + 1, user_id |-> u, type |-> t,
                      started_at |-> now, ended_at |-> NULL])

\* .insert({user_id, type, started_at}): a new row, ended_at null
Insert(tbl, u, t, now) ==
    Append(tbl, [id |-> Len(tbl) + 1, user_id |-> u, type |-> t,
                 started_at |-> now, ended_at |-> NULL])

\* Update that writes only while ended_at is still null
UpdateIfOpen(tbl, meal_id, now) ==
    [i \in 1..Len(tbl) |->
        IF tbl[i].id = meal_id /\ tbl[i].ended_at = NULL
        THEN [tbl[i] EXCEPT !.ended_at = now] ELSE tbl[i]]

\* an update that writes nothing
UpdateNothing(tbl, meal_id, now) == tbl

\* .update({"ended_at": now}).eq("id", meal_id)
Update(tbl, meal_id, now) ==
    [i \in 1..Len(tbl) |->
        IF tbl[i].id = meal_id THEN [tbl[i] EXCEPT !.ended_at = now] ELSE tbl[i]]

\* .order("started_at", desc=...): every order of S the database may return
\* (rows of equal started_at come in any order)
RECURSIVE OrderBy(_, _)
OrderBy(S, desc) ==
    IF S = {} THEN {<<>>}
    ELSE UNION {{<<m>> \o s : s \in OrderBy(S \ {m}, desc)} :
                  m \in {x \in S : \A y \in S :
                            IF desc THEN x.started_at >= y.started_at
                                    ELSE x.started_at <= y.started_at}}

\* .limit(1)
Limit1(s) == IF Len(s) = 0 THEN s ELSE <<s[1]>>

\* EndCandidates without .eq("user_id", user_id)
EndCandidatesAnyUser(tbl, u, t, today_start) ==
    {m \in Rows(tbl) : /\ m.type = t
                       /\ m.started_at >= today_start
                       /\ m.ended_at = NULL}

\* EndCandidates without .is_("ended_at", "null")
EndCandidatesAnyEnd(tbl, u, t, today_start) ==
    {m \in Rows(tbl) : /\ m.user_id = u
                       /\ m.type = t
                       /\ m.started_at >= today_start}

\* EndCandidates without .gte("started_at", today_start)
EndCandidatesAnyDay(tbl, u, t, today_start) ==
    {m \in Rows(tbl) : /\ m.user_id = u
                       /\ m.type = t
                       /\ m.ended_at = NULL}

\* the select of end_meal: open rows of the user and type started today
EndCandidates(tbl, u, t, today_start) ==
    {m \in Rows(tbl) : /\ m.user_id = u
                       /\ m.type = t
                       /\ m.started_at >= today_start
                       /\ m.ended_at = NULL}

\* EndSelectData with .order("started_at") ascending
EndSelectDataOldest(tbl, u, t, today_start) ==
    {Limit1(s) : s \in OrderBy({m \in Rows(tbl) : /\ m.user_id = u
                                                  /\ m.type = t
                                                  /\ m.started_at >= today_start
                                                  /\ m.ended_at = NULL}, FALSE)}

\* result.data of the select of end_meal
EndSelectData(tbl, u, t, today_start) ==
    {Limit1(s) : s \in OrderBy(EndCandidates(tbl, u, t, today_start), TRUE)}

\* TodayFilter without .gte("started_at", today_start)
TodayFilterAllDays(tbl, u, today_start) ==
    {m \in Rows(tbl) : m.user_id = u}

\* the select of get_meals_today
TodayFilter(tbl, u, today_start) ==
    {m \in Rows(tbl) : m.user_id = u /\ m.started_at >= today_start}

\* TodayData with .order("started_at", desc=True)
TodayDataDesc(tbl, u, today_start) ==
    OrderBy({m \in Rows(tbl) : m.user_id = u /\ m.started_at >= today_start}, TRUE)

TodayData(tbl, u, today_start) == OrderBy(TodayFilter(tbl, u, today_start), FALSE)

\* the select of get_meals_history
\* HistoryFilter without .eq("user_id", user_id)
HistoryFilterAnyUser(tbl, u) == Rows(tbl)

HistoryFilter(tbl, u) == {m \in Rows(tbl) : m.user_id = u}

\* HistoryData with .order("started_at") ascending
HistoryDataAsc(tbl, u) == OrderBy({m \in Rows(tbl) : m.user_id = u}, FALSE)

HistoryData(tbl, u) == OrderBy(HistoryFilter(tbl, u), TRUE)

(* ----------------------------- rendering ------------------------------- *)
\* the line of one meal, as both reports format it
MealLine(m) ==
    "  - " \o Capitalize(m.type) \o ": " \o HHMM(m.started_at) \o " - " \o
    (IF m.ended_at # NULL THEN HHMM(m.ended_at) ELSE "ongoing") \o " UTC"

MealLines(data) == [i \in 1..Len(data) |-> MealLine(data[i])]

\* sorted(keys, reverse=True) of a set of dates
RECURSIVE SortedDesc(_)
SortedDesc(D) ==
    IF D = {} THEN <<>>
    ELSE LET mx == CHOOSE d \in D : \A e \in D : e <= d
         IN <<mx>> \o SortedDesc(D \ {mx})

\* SliceTo without the slice
SliceToNoLimit(s, n) == s

\* Python's s[:n]
SliceTo(s, n) ==
    IF n >= 0 THEN SubSeq(s, 1, IF n < Len(s) THEN n ELSE Len(s))
    ELSE SubSeq(s, 1, IF Len(s) + n > 0 THEN Len(s) + n ELSE 0)

\* meals_by_date[date]: the rows of that date, in the order of result.data
MealsByDate(data, date) ==
    SelectSeq(data, LAMBDA m : DateOf(m.started_at) = date)

\* sorted(meals_by_date.keys(), reverse=True)[:days]
SortedDates(data, days) ==
    SliceTo(SortedDesc({DateOf(data[i].started_at) : i \in 1..Len(data)}), days)

\* the date sections of the history report
Sections(data, days) ==
    LET sd == SortedDates(data, days)
    IN [k \in 1..Len(sd) |->
          [date |-> sd[k],
           meals |-> MealsByDate(data, sd[k]),
           lines |-> MealLines(MealsByDate(data, sd[k]))]]

(* --------------------------- initial state ----------------------------- *)
NoCall ==
    [op |-> "none", user |-> "", type |-> "", days |-> 0,
     ret |-> "", data |-> <<>>, sections |-> <<>>, lines |-> <<>>,
     pre |-> <<>>]

\* the requests the server may be serving at the same time
Requests == {1, 2}

Idle == [pc |-> "idle", user |-> "", type |-> "", now |-> 0, id |-> 0]

Init ==
    /\ clock = FirstInstant
    /\ meals = <<>>
    /\ last = NoCall
    /\ calls = [r \in Requests |-> Idle]
    /\ closes = <<>>

(* ------------------------------ the clock ------------------------------ *)
Tick ==
    /\ \E t \in Instants : t > clock
    /\ clock' = NextInstant(clock)
    /\ last' = NoCall
    /\ UNCHANGED <<meals, calls, closes>>

(* ----------------------- tool calls, one step each --------------------- *)
StartedText(meal_type, now) ==
    "Started " \o meal_type \o " at " \o HHMM(now) \o " UTC"

FinishedText(meal_type, now) ==
    "Finished " \o meal_type \o " at " \o HHMM(now) \o " UTC"

NoActiveText(meal_type) ==
    "No active " \o meal_type \o " found for today. Did you forget to start it?"

start_meal(client_id, meal_type) ==
    LET user_id == get_user_id(client_id)
        now == clock
    IN /\ meals' = Insert(meals, user_id, meal_type, now)
       /\ closes' = Append(closes, <<>>)
       /\ last' = [NoCall EXCEPT !.op = "start_meal", !.user = user_id,
                                 !.type = meal_type,
                                 !.ret = StartedText(meal_type, now),
                                 !.pre = meals]
       /\ UNCHANGED <<clock, calls>>

end_meal(client_id, meal_type) ==
    LET user_id == get_user_id(client_id)
        now == clock
        today_start == TodayStart(now)
    IN \E data \in EndSelectData(meals, user_id, meal_type, today_start) :
          /\ IF Len(data) = 0
             THEN /\ UNCHANGED <<meals, closes>>
                  /\ last' = [NoCall EXCEPT !.op = "end_meal", !.user = user_id,
                                !.type = meal_type, !.data = data,
                                !.ret = NoActiveText(meal_type),
                                !.pre = meals]
             ELSE /\ meals' = Update(meals, data[1].id, now)
                  /\ closes' = [closes EXCEPT ![data[1].id] = Append(@, now)]
                  /\ last' = [NoCall EXCEPT !.op = "end_meal", !.user = user_id,
                                !.type = meal_type, !.data = data,
                                !.ret = FinishedText(meal_type, now),
                                !.pre = meals]
          /\ UNCHANGED <<clock, calls>>

get_meals_today(client_id) ==
    LET user_id == get_user_id(client_id)
        now == clock
        today_start == TodayStart(now)
    IN \E data \in TodayData(meals, user_id, today_start) :
          /\ last' = IF Len(data) = 0
                     THEN [NoCall EXCEPT !.op = "get_meals_today",
                             !.user = user_id, !.data = data,
                             !.ret = "No meals logged today.", !.pre = meals]
                     ELSE [NoCall EXCEPT !.op = "get_meals_today",
                             !.user = user_id, !.data = data,
                             !.ret = "Meals for " \o DateStr(now) \o ":",
                             !.lines = MealLines(data), !.pre = meals]
          /\ UNCHANGED <<clock, meals, calls, closes>>

get_meals_history(client_id, days) ==
    LET user_id == get_user_id(client_id)
    IN \E data \in HistoryData(meals, user_id) :
          /\ last' = IF Len(data) = 0 \/ Len(SortedDates(data, days)) = 0
                     THEN [NoCall EXCEPT !.op = "get_meals_history",
                             !.user = user_id, !.days = days, !.data = data,
                             !.ret = "No meal history found.", !.pre = meals]
                     ELSE [NoCall EXCEPT !.op = "get_meals_history",
                             !.user = user_id, !.days = days, !.data = data,
                             !.ret = "Meal history (last " \o ToString(days)
                                     \o " days):",
                             !.sections = Sections(data, days), !.pre = meals]
          /\ UNCHANGED <<clock, meals, calls, closes>>

\* the four tools, called one after the other (get_meals_history with its
\* default argument)
NextAtomic ==
    \/ Tick
    \/ \E c \in ClientIds, t \in TypesTried :
          Len(meals) < MaxMeals /\ start_meal(c, t)
    \/ \E c \in ClientIds, t \in TypesTried : end_meal(c, t)
    \/ \E c \in ClientIds : get_meals_today(c)
    \/ \E c \in ClientIds : get_meals_history(c, DefaultDays)

SpecAtomic == Init /\ [][NextAtomic]_vars

\* start_meal, end_meal and get_meals_history with every `days` tried
NextHistory ==
    \/ Tick
    \/ \E c \in ClientIds, t \in HistoryTypes :
          Len(meals) < MaxMeals /\ start_meal(c, t)
    \/ \E c \in ClientIds, t \in HistoryTypes : end_meal(c, t)
    \/ \E c \in ClientIds, days \in (0 - 1)..MaxDays : get_meals_history(c, days)

SpecHistory == Init /\ [][NextHistory]_vars

(* ------------- start_meal and end_meal, one step per statement --------- *)
\* the start_meal calls that have read the clock and not inserted yet
PendingStarts == {r \in Requests : calls[r].pc = "start_insert"}

\* start_meal, lines 44-45: user_id and now
StartRead(r, client_id, meal_type) ==
    /\ calls[r].pc = "idle"
    /\ Len(meals) + Cardinality(PendingStarts) < MaxConcMeals
    /\ calls' = [calls EXCEPT ![r] = [pc |-> "start_insert",
                    user |-> get_user_id(client_id), type |-> meal_type,
                    now |-> clock, id |-> 0]]
    /\ UNCHANGED <<clock, meals, last, closes>>

\* start_meal, lines 47-54: the insert and the return
StartInsert(r) ==
    /\ calls[r].pc = "start_insert"
    /\ meals' = Insert(meals, calls[r].user, calls[r].type, calls[r].now)
    /\ closes' = Append(closes, <<>>)
    /\ calls' = [calls EXCEPT ![r] = Idle]
    /\ UNCHANGED <<clock, last>>

\* end_meal, lines 65-67: user_id, now and today_start
EndRead(r, client_id, meal_type) ==
    /\ calls[r].pc = "idle"
    /\ calls' = [calls EXCEPT ![r] = [pc |-> "end_select",
                    user |-> get_user_id(client_id), type |-> meal_type,
                    now |-> clock, id |-> 0]]
    /\ UNCHANGED <<clock, meals, last, closes>>

\* end_meal, lines 72-88: the select; returns when it finds no row
EndSelect(r) ==
    /\ calls[r].pc = "end_select"
    /\ \E data \in EndSelectData(meals, calls[r].user, calls[r].type,
                                 TodayStart(calls[r].now)) :
          calls' = IF Len(data) = 0
                   THEN [calls EXCEPT ![r] = Idle]
                   ELSE [calls EXCEPT ![r].pc = "end_update",
                                      ![r].id = data[1].id]
    /\ UNCHANGED <<clock, meals, last, closes>>

\* end_meal, lines 89-93: the update and the "Finished" return
EndUpdate(r) ==
    /\ calls[r].pc = "end_update"
    /\ meals' = Update(meals, calls[r].id, calls[r].now)
    /\ closes' = [closes EXCEPT ![calls[r].id] = Append(@, calls[r].now)]
    /\ calls' = [calls EXCEPT ![r] = Idle]
    /\ UNCHANGED <<clock, last>>

\* the clock while requests are in flight (last is not used)
ConcTick ==
    /\ \E t \in Instants : t > clock
    /\ clock' = NextInstant(clock)
    /\ UNCHANGED <<meals, last, calls, closes>>

Next ==
    \/ ConcTick
    \/ \E r \in Requests, c \in ClientIds, t \in ConcTypes : StartRead(r, c, t)
    \/ \E r \in Requests : StartInsert(r)
    \/ \E r \in Requests, c \in ClientIds, t \in ConcTypes : EndRead(r, c, t)
    \/ \E r \in Requests : EndSelect(r)
    \/ \E r \in Requests : EndUpdate(r)

Spec == Init /\ [][Next]_vars

(* ======================= the claims, C1 to C4 ========================== *)
\* the open rows of user u and type t in tbl that were started on the UTC
\* day of `now`
OpenToday(tbl, u, t, now) ==
    {m \in Rows(tbl) : /\ m.user_id = u
                       /\ m.type = t
                       /\ m.ended_at = NULL
                       /\ m.started_at \div SecondsPerDay = now \div SecondsPerDay}

\* tbl2 is tbl with row i closed at `now` and nothing else changed
ClosedOnly(tbl, tbl2, i, now) ==
    /\ Len(tbl2) = Len(tbl)
    /\ tbl2[i] = [tbl[i] EXCEPT !.ended_at = now]
    /\ \A j \in 1..Len(tbl) : j # i => tbl2[j] = tbl[j]

\* C1: when the user has two or more open records of the type started in the
\* current UTC day, one end_meal call sets ended_at on one with the greatest
\* started_at and changes no other record, so every earlier-started open
\* record of the type is still open afterwards.
C1_EndClosesMostRecentOnly ==
    (/\ last.op = "end_meal"
     /\ Cardinality(OpenToday(last.pre, last.user, last.type, clock)) >= 2)
    => \E i \in 1..Len(last.pre) :
          /\ last.pre[i] \in OpenToday(last.pre, last.user, last.type, clock)
          /\ \A m \in OpenToday(last.pre, last.user, last.type, clock) :
                /\ m.started_at <= last.pre[i].started_at
                /\ m.started_at < last.pre[i].started_at
                      => meals[m.id].ended_at = NULL
          /\ ClosedOnly(last.pre, meals, i, clock)

\* C1's case: end_meal ran with two open records of different started_at
C1_Witness ==
    /\ last.op = "end_meal"
    /\ \E a, b \in OpenToday(last.pre, last.user, last.type, clock) :
          /\ a.started_at < b.started_at
          /\ meals[b.id].ended_at = clock
          /\ meals[a.id].ended_at = NULL

\* C2: start_meal(t) by u at T1 immediately followed by end_meal(t) by u at
\* T2 >= T1 of the same UTC day closes the record that start_meal created
\* (the last row inserted): its ended_at becomes T2 >= started_at, end_meal
\* returns the "Finished" confirmation and no other record changes.
C2_StartThenEndClosesThatRecord ==
    (/\ last.op = "end_meal"
     /\ Len(last.pre) >= 1
     /\ last.pre[Len(last.pre)] \in
           OpenToday(last.pre, last.user, last.type, clock)
     /\ clock >= last.pre[Len(last.pre)].started_at)
    => /\ ClosedOnly(last.pre, meals, Len(last.pre), clock)
       /\ meals[Len(meals)].ended_at >= meals[Len(meals)].started_at
       /\ last.ret = FinishedText(last.type, clock)

\* C3: end_meal(t) by a user with no open record of type t returns the
\* "No active <type> found for today" message and leaves the table as it was.
C3_EndWithoutOpenChangesNothing ==
    (/\ last.op = "end_meal"
     /\ ~\E m \in Rows(last.pre) :
            m.user_id = last.user /\ m.type = last.type /\ m.ended_at = NULL)
    => /\ last.ret = "No active " \o last.type \o
                        " found for today. Did you forget to start it?"
       /\ meals = last.pre

\* C3's case: end_meal ran for a user whose records of the type are all ended
\* while another user or another type has an open record
C3_Witness ==
    /\ last.op = "end_meal"
    /\ ~\E m \in Rows(last.pre) :
           m.user_id = last.user /\ m.type = last.type /\ m.ended_at = NULL
    /\ \E m \in Rows(last.pre) :
           m.user_id = last.user /\ m.type = last.type /\ m.ended_at # NULL
    /\ \E m \in Rows(last.pre) :
           (m.user_id # last.user \/ m.type # last.type) /\ m.ended_at = NULL
    /\ meals = last.pre

\* C4: with every tool call atomic, no step deletes a record or changes its
\* user_id, type or started_at, and ended_at only ever changes from null to
\* a timestamp: once set it is never changed or reset.
C4_AppendThenCloseOnce ==
    [][/\ Len(meals') >= Len(meals)
       /\ \A i \in 1..Len(meals) :
             /\ meals'[i].id = meals[i].id
             /\ meals'[i].user_id = meals[i].user_id
             /\ meals'[i].type = meals[i].type
             /\ meals'[i].started_at = meals[i].started_at
             /\ meals[i].ended_at # NULL
                   => meals'[i].ended_at = meals[i].ended_at
             /\ meals[i].ended_at = NULL
                   => meals'[i].ended_at \in {NULL, clock}]_vars

\* C4's case: end_meal ran, at a later instant, for a user and type that
\* already had an ended record of today, and that record kept its ended_at
C4_Witness ==
    /\ last.op = "end_meal"
    /\ \E m \in Rows(last.pre) :
          /\ m.user_id = last.user
          /\ m.type = last.type
          /\ m.started_at \div SecondsPerDay = clock \div SecondsPerDay
          /\ m.ended_at # NULL
          /\ m.ended_at < clock
          /\ meals[m.id] = m

(* ======================= the claims, C5 to C8 ========================== *)
\* the records of user u in tbl that were started on UTC day d
StartedOn(tbl, u, d) ==
    {m \in Rows(tbl) : m.user_id = u /\ m.started_at \div SecondsPerDay = d}

\* the UTC days on which user u has a record
UserDates(tbl, u) ==
    {m.started_at \div SecondsPerDay : m \in {x \in Rows(tbl) : x.user_id = u}}

\* the elements of a sequence
Range(s) == {s[i] : i \in 1..Len(s)}

\* C5: for days >= 1 get_meals_history renders exactly the min(days, D) most
\* recent distinct UTC dates on which the user has a record, most recent
\* first; a date without records is skipped and every record of a rendered
\* date is under that date.
C5_HistoryMostRecentDates ==
    (last.op = "get_meals_history" /\ last.days >= 1)
    => LET D == UserDates(meals, last.user)
           n == IF last.days < Cardinality(D) THEN last.days ELSE Cardinality(D)
           shown == {last.sections[k].date : k \in 1..Len(last.sections)}
       IN /\ Len(last.sections) = n
          /\ \A k \in 1..(Len(last.sections) - 1) :
                last.sections[k].date > last.sections[k + 1].date
          /\ shown \subseteq D
          /\ \A d \in D \ shown : \A e \in shown : d < e
          /\ \A k \in 1..Len(last.sections) :
                /\ Range(last.sections[k].meals)
                      = StartedOn(meals, last.user, last.sections[k].date)
                /\ Len(last.sections[k].meals)
                      = Cardinality(StartedOn(meals, last.user,
                                              last.sections[k].date))
                /\ Len(last.sections[k].lines) = Len(last.sections[k].meals)
          /\ (n = 0) <=> (last.ret = "No meal history found.")

\* C5's case: the user has records on more dates than `days`
C5_Witness ==
    /\ last.op = "get_meals_history"
    /\ last.days >= 1
    /\ Cardinality(UserDates(meals, last.user)) > last.days
    /\ Len(last.sections) = last.days

\* C6 as claimed: within each date section of get_meals_history the records
\* are listed in ascending started_at order.
C6_HistoryAscendingWithinDate ==
    last.op = "get_meals_history"
    => \A k \in 1..Len(last.sections) :
          \A i, j \in 1..Len(last.sections[k].meals) :
             i < j => last.sections[k].meals[i].started_at
                        <= last.sections[k].meals[j].started_at

\* C6 as amended: within each date section of get_meals_history the records
\* are listed in descending started_at order (latest meal of the day first).
C6_HistoryDescendingWithinDate ==
    last.op = "get_meals_history"
    => \A k \in 1..Len(last.sections) :
          \A i, j \in 1..Len(last.sections[k].meals) :
             i < j => last.sections[k].meals[i].started_at
                        >= last.sections[k].meals[j].started_at

\* C6's case: a date section with two records of different started_at
C6_Witness ==
    /\ last.op = "get_meals_history"
    /\ \E k \in 1..Len(last.sections) :
          /\ Len(last.sections[k].meals) >= 2
          /\ last.sections[k].meals[1].started_at
                > last.sections[k].meals[2].started_at

\* C7: get_meals_today returns "No meals logged today." when the user has no
\* record started today; otherwise it renders one entry line per record the
\* user started today, in ascending started_at order.
C7_TodayOneLinePerRecord ==
    last.op = "get_meals_today"
    => LET T == StartedOn(meals, last.user, clock \div SecondsPerDay)
       IN IF T = {}
          THEN last.ret = "No meals logged today." /\ last.lines = <<>>
          ELSE /\ last.ret # "No meals logged today."
               /\ Len(last.lines) = Cardinality(T)
               /\ Len(last.data) = Cardinality(T)
               /\ \A i \in 1..Len(last.data) :
                     last.lines[i] = MealLine(last.data[i])
               /\ \A i, j \in 1..Len(last.data) :
                     i < j => last.data[i].started_at <= last.data[j].started_at

\* C7's case: the user started two records today at different instants
C7_Witness ==
    /\ last.op = "get_meals_today"
    /\ Len(last.lines) = 2
    /\ last.data[1].started_at < last.data[2].started_at

\* C8: the clock never runs behind a started_at, and get_meals_today called
\* at `now` reports exactly the caller's records whose started_at is in
\* [start_of_day(now), start_of_day(now) + 24h): none of an earlier UTC day,
\* none of a later one.
C8_TodayWindow ==
    /\ \A m \in Rows(meals) : m.started_at <= clock
    /\ last.op = "get_meals_today"
       => LET day_start == (clock \div SecondsPerDay) * SecondsPerDay
          IN Range(last.data)
               = {m \in Rows(meals) : /\ m.user_id = last.user
                                      /\ day_start <= m.started_at
                                      /\ m.started_at < day_start + SecondsPerDay}

\* C8's case: the caller has a record of an earlier UTC day, another user has
\* a record of today, and the report lists neither
C8_Witness ==
    /\ last.op = "get_meals_today"
    /\ \E m \in Rows(meals) :
          /\ m.user_id = last.user
          /\ m.started_at \div SecondsPerDay < clock \div SecondsPerDay
          /\ m \notin Range(last.data)
    /\ \E m \in Rows(meals) :
          /\ m.user_id # last.user
          /\ m.started_at \div SecondsPerDay = clock \div SecondsPerDay
          /\ m \notin Range(last.data)

(* ======================= the claims, C9 and C10 ======================== *)
\* C9: end_meal is an unguarded read-then-write: every update of a selected
\* record goes through and returns "Finished", whether or not another call
\* has closed the record since the select, so a record's ended_at is the
\* `now` of the update that ran last (and null when none ran).
C9_EndRaceLastWriteWins ==
    /\ Len(closes) = Len(meals)
    /\ \A i \in 1..Len(meals) :
          IF closes[i] = <<>>
          THEN meals[i].ended_at = NULL
          ELSE meals[i].ended_at = closes[i][Len(closes[i])]

\* C9's case: two end_meal calls selected the same open record and both
\* updated it and returned "Finished"; the update that ran last carried the
\* earlier timestamp, which is the record's ended_at
C9_Witness ==
    \E i \in 1..Len(meals) :
       /\ Len(closes[i]) = 2
       /\ closes[i][2] < closes[i][1]
       /\ meals[i].ended_at = closes[i][2]
       /\ \A r \in Requests : calls[r].pc = "idle"

\* C10: in every reachable state, also when start_meal and end_meal calls
\* interleave between reading the clock and accessing the table, every
\* record whose ended_at is set has ended_at >= started_at.
C10_EndedNotBeforeStarted ==
    \A i \in 1..Len(meals) :
       meals[i].ended_at # NULL => meals[i].ended_at >= meals[i].started_at

(* ======================= the claims, C11 to C16 ======================== *)
\* C11: start_meal has no rejection path: whatever the table holds, also an
\* open record of the user and type, it appends exactly one record (the
\* caller's user_id, the type, started_at = now, ended_at null), returns the
\* "Started" confirmation and leaves every earlier record unchanged.
C11_StartAlwaysAppendsOne ==
    last.op = "start_meal"
    => /\ Len(meals) = Len(last.pre) + 1
       /\ \A i \in 1..Len(last.pre) : meals[i] = last.pre[i]
       /\ meals[Len(meals)].user_id = last.user
       /\ meals[Len(meals)].type = last.type
       /\ meals[Len(meals)].started_at = clock
       /\ meals[Len(meals)].ended_at = NULL
       /\ \A i \in 1..Len(last.pre) : meals[i].id # meals[Len(meals)].id
       /\ last.ret = "Started " \o last.type \o " at " \o HHMM(clock) \o " UTC"

\* C11's case: start_meal ran while the user had an open record of the type
C11_Witness ==
    /\ last.op = "start_meal"
    /\ \E m \in OpenToday(last.pre, last.user, last.type, clock) :
          meals[m.id] = m
    /\ Len(meals) = Len(last.pre) + 1

\* two decimal digits of n < 100
TwoDigits(n) == ToString(n \div 10) \o ToString(n % 10)

\* the 24-hour HH:MM of the UTC instant t, seconds dropped
ClockText(t) ==
    LET minutes == (t % SecondsPerDay) \div SecondsPerMinute
    IN TwoDigits(minutes \div 60) \o ":" \o TwoDigits(minutes % 60)

\* the end marker a record must show
EndMarker(m) == IF m.ended_at = NULL THEN "ongoing" ELSE ClockText(m.ended_at)

\* the entry line a record must be rendered as
EntryText(m) ==
    "  - " \o (CASE m.type = "breakfast" -> "Breakfast"
                  [] m.type = "lunch" -> "Lunch"
                  [] m.type = "dinner" -> "Dinner")
           \o ": " \o ClockText(m.started_at) \o " - " \o EndMarker(m) \o " UTC"

\* C12: in get_meals_today and in get_meals_history the entry of a record
\* shows the end marker "ongoing" exactly when its ended_at is null; a record
\* started at T1 and ended at T2 shows the HH:MM of T1 and the HH:MM of T2.
C12_EntryShowsTimesOrOngoing ==
    /\ last.op = "get_meals_today"
       => /\ Len(last.lines) = Len(last.data)
          /\ \A i \in 1..Len(last.data) :
                /\ last.lines[i] = EntryText(last.data[i])
                /\ (EndMarker(last.data[i]) = "ongoing")
                      <=> (meals[last.data[i].id].ended_at = NULL)
    /\ last.op = "get_meals_history"
       => \A k \in 1..Len(last.sections) :
             /\ Len(last.sections[k].lines) = Len(last.sections[k].meals)
             /\ \A i \in 1..Len(last.sections[k].meals) :
                   /\ last.sections[k].lines[i]
                         = EntryText(last.sections[k].meals[i])
                   /\ (EndMarker(last.sections[k].meals[i]) = "ongoing")
                         <=> (meals[last.sections[k].meals[i].id].ended_at = NULL)

\* C12's case: a report lists an ended record, whose start and end have
\* seconds that HH:MM drops, and an ongoing one
C12_Witness ==
    /\ last.op = "get_meals_today"
    /\ \E i, j \in 1..Len(last.data) :
          /\ last.data[i].ended_at # NULL
          /\ last.data[i].started_at % SecondsPerMinute # 0
          /\ last.data[i].ended_at % SecondsPerMinute # 0
          /\ last.data[j].ended_at = NULL

\* 00:00 UTC of the day of the instant t
Midnight(t) == (t \div SecondsPerDay) * SecondsPerDay

\* the rows of tbl that are open and were started before the day of `now`
StaleOpen(tbl, now) ==
    {i \in 1..Len(tbl) : tbl[i].ended_at = NULL
                          /\ tbl[i].started_at < Midnight(now)}

\* C13: end_meal only closes a record whose started_at is at or after 00:00
\* UTC of the day of the call.  So a record still open when the UTC day changes
\* is never closed: every later call leaves it as it is, a later end_meal for
\* its type returns the "No active" message or closes a newer record, and the
\* history report keeps showing it as ongoing.
C13_EndClosesOnlyTodaysRecords ==
    /\ \A i \in 1..Len(meals) :
          /\ \A k \in 1..Len(closes[i]) :
                meals[i].started_at >= Midnight(closes[i][k])
          /\ meals[i].ended_at # NULL
                => meals[i].started_at >= Midnight(meals[i].ended_at)
    /\ last.op # "none"
       => \A i \in StaleOpen(last.pre, clock) : meals[i] = last.pre[i]
    /\ last.op = "end_meal"
       => \A i \in StaleOpen(last.pre, clock) :
             \/ last.ret = "No active " \o last.type
                              \o " found for today. Did you forget to start it?"
             \/ \E j \in 1..Len(meals) :
                   /\ j # i
                   /\ meals[j].started_at > meals[i].started_at
                   /\ meals[j].started_at >= Midnight(clock)
                   /\ ClosedOnly(last.pre, meals, j, clock)
    /\ last.op = "get_meals_history"
       => \A i \in StaleOpen(meals, clock) :
             meals[i].user_id = last.user
             => \E k \in 1..Len(last.sections) :
                   \E n \in 1..Len(last.sections[k].meals) :
                      /\ last.sections[k].meals[n] = meals[i]
                      /\ last.sections[k].lines[n]
                            = "  - " \o Capitalize(meals[i].type) \o ": "
                              \o ClockText(meals[i].started_at)
                              \o " - ongoing UTC"

\* C13's case: on a later day end_meal is called for the type of a record
\* left open on an earlier day; it closes a record started at 00:00:00 of the
\* day of the call and the old record stays open
C13_Witness ==
    /\ last.op = "end_meal"
    /\ \E i \in StaleOpen(last.pre, clock) :
          /\ last.pre[i].user_id = last.user
          /\ last.pre[i].type = last.type
          /\ meals[i].ended_at = NULL
          /\ \E j \in 1..Len(meals) :
                /\ meals[j].started_at = Midnight(clock)
                /\ ClosedOnly(last.pre, meals, j, clock)

\* the number of "Finished" confirmations returned so far
RECURSIVE FinishedCount(_)
FinishedCount(cl) ==
    IF cl = <<>> THEN 0 ELSE Len(Head(cl)) + FinishedCount(Tail(cl))

\* the number of records whose ended_at is set
ClosedCount(tbl) == Cardinality({i \in 1..Len(tbl) : tbl[i].ended_at # NULL})

\* C14 as stated: in every execution, also when end_meal calls interleave
\* between their select and their update, the number of "Finished"
\* confirmations returned so far equals the number of records whose ended_at
\* is set.
C14_FinishedCountEqualsClosed ==
    FinishedCount(closes) = ClosedCount(meals)

\* C14, amended: a record has its ended_at set exactly when at least one
\* "Finished" confirmation was returned for it, and ended_at is the value
\* written by the latest of them; two interleaved end_meal calls may both
\* return "Finished" for the same record, so the number of confirmations is
\* at least, and not always equal to, the number of closed records.
C14_FinishedAtLeastClosed ==
    /\ Len(closes) = Len(meals)
    /\ \A i \in 1..Len(meals) :
          /\ (meals[i].ended_at # NULL) <=> (Len(closes[i]) >= 1)
          /\ meals[i].ended_at # NULL
                => meals[i].ended_at = closes[i][Len(closes[i])]
    /\ FinishedCount(closes) >= ClosedCount(meals)

\* C14's case: two confirmations were returned and one record is closed
C14_Witness ==
    /\ FinishedCount(closes) = 2
    /\ ClosedCount(meals) = 1
    /\ \A r \in Requests : calls[r].pc = "idle"

\* the records of user u, in table order
OwnRows(tbl, u) == SelectSeq(tbl, LAMBDA m : m.user_id = u)

\* C15: users are isolated: a start_meal or end_meal call of user u adds,
\* closes and changes records of u only, and what get_meals_today and
\* get_meals_history return to a user is what they return on the table that
\* holds that user's records alone.
C15_UsersIsolated ==
    /\ last.op \in {"start_meal", "end_meal"}
       => /\ Len(meals) >= Len(last.pre)
          /\ \A i \in 1..Len(last.pre) :
                last.pre[i].user_id # last.user => meals[i] = last.pre[i]
          /\ \A i \in (Len(last.pre) + 1)..Len(meals) :
                meals[i].user_id = last.user
          /\ \A v \in UserIds \ {last.user} :
                OwnRows(meals, v) = OwnRows(last.pre, v)
    /\ last.op = "get_meals_today"
       => /\ meals = last.pre
          /\ \A i \in 1..Len(last.data) : last.data[i].user_id = last.user
          /\ \E d \in TodayData(OwnRows(meals, last.user), last.user,
                                 Midnight(clock)) :
                /\ last.data = d
                /\ last.lines = [i \in 1..Len(d) |-> EntryText(d[i])]
                /\ last.ret = IF Len(d) = 0 THEN "No meals logged today."
                               ELSE "Meals for " \o DateStr(clock) \o ":"
    /\ last.op = "get_meals_history"
       => /\ meals = last.pre
          /\ \A i \in 1..Len(last.data) : last.data[i].user_id = last.user
          /\ \E d \in HistoryData(OwnRows(meals, last.user), last.user) :
                /\ last.data = d
                /\ last.sections = IF Len(d) = 0 THEN <<>>
                                    ELSE Sections(d, last.days)
                /\ \A k \in 1..Len(last.sections) :
                      \A i \in 1..Len(last.sections[k].meals) :
                         last.sections[k].meals[i].user_id = last.user

\* C15's case: a user closes a record while another user has an open record
\* of the same type started the same day, which stays open
C15_Witness ==
    /\ last.op = "end_meal"
    /\ \E j \in 1..Len(meals) : ClosedOnly(last.pre, meals, j, clock)
    /\ \E i \in 1..Len(meals) :
          /\ meals[i].user_id # last.user
          /\ meals[i].type = last.type
          /\ meals[i].ended_at = NULL
          /\ meals[i].started_at >= Midnight(clock)

\* max(days, 0)
DaysOrZero(days) == IF days > 0 THEN days ELSE 0

\* C16: for any integer days, get_meals_history(days) renders at most
\* max(days, 0) date sections; for every days <= 0 it renders no date and
\* returns the "No meal history found." sentinel, whatever records the user
\* has.
C16_HistoryAtMostDaysSections ==
    last.op = "get_meals_history"
    => /\ Len(last.sections) <= DaysOrZero(last.days)
       /\ last.days <= 0
             => /\ last.sections = <<>>
                /\ last.ret = "No meal history found."

====
